---------------------------- MODULE Spec2Model ----------------------------
(***************************************************************************)
(* Model of custom_components/fritzbox/__init__.py: the config-entry       *)
(* lifecycle hooks (async_setup_entry, async_unload_entry,                 *)
(* async_remove_config_entry_device), the unique-ID migration callback and *)
(* the unique ID derived by FritzBoxEntity.                                *)
(*                                                                         *)
(* Python strings that are inspected character-wise (unique IDs, AINs of   *)
(* entities, description keys) are sequences of one-character strings.     *)
(* Optional values are None / Some(x).                                     *)
(***************************************************************************)
EXTENDS Naturals, Sequences, FiniteSets

VARIABLES
    entry_state,      \* ConfigEntry.state of each config entry, as kept by the host
    hass_data,        \* hass.data[DOMAIN]: entry_id -> None | Some(entry data)
    stop_listener,    \* entry_id -> whether logout_fritzbox listens for EVENT_HOMEASSISTANT_STOP
    device_registry,  \* the host's device registry: a set of DeviceEntry records
    entity_registry,  \* the host's entity registry: a sequence of RegistryEntry records
    issues,           \* repair issues created by setup: the device ids they name
    entities,         \* FritzBoxEntity objects constructed so far
    result            \* the last call: its name, its inputs and what it returned or raised

vars == <<entry_state, hass_data, stop_listener, device_registry,
          entity_registry, issues, entities, result>>

(* Optional values and Python truthiness.                                   *)

None == [some |-> FALSE]

Some(x) == [some |-> TRUE, val |-> x]

\* `if x:` for x : str | None
Truthy(x) == x.some /\ x.val # ""

(* Strings as character sequences.                                          *)

\* Python's `sub in s`
Contains(s, sub) ==
    \E i \in 1..(Len(s) + 1) :
        /\ i + Len(sub) - 1 <= Len(s)
        /\ SubSeq(s, i, i + Len(sub) - 1) = sub

UNDERSCORE == <<"_">>

TEMPERATURE == <<"t", "e", "m", "p", "e", "r", "a", "t", "u", "r", "e">>

ALARM == <<"a", "l", "a", "r", "m">>

(* Constants of the integration and of the host.                            *)

\* const.DOMAIN (DOMAIN is a reserved word of TLA+)
FRITZ_DOMAIN == "fritzbox"

BINARY_SENSOR_DOMAIN == "binary_sensor"

CELSIUS == "UnitOfTemperature.CELSIUS"

CONF_AIN == "ain"


(* The unique-ID migration: _update_unique_id and the host's               *)
(* async_migrate_entries that applies it.                                   *)

\* mutant of _update_unique_id: the binary_sensor rule is tried first
UpdateUniqueIdAlarmFirst(entry) ==
    IF /\ entry.domain = BINARY_SENSOR_DOMAIN
       /\ ~Contains(entry.unique_id, UNDERSCORE)
    THEN Some([new_unique_id |-> entry.unique_id \o UNDERSCORE \o ALARM])
    ELSE IF /\ entry.unit_of_measurement = CELSIUS
            /\ ~Contains(entry.unique_id, UNDERSCORE \o TEMPERATURE)
         THEN Some([new_unique_id |-> entry.unique_id \o UNDERSCORE \o TEMPERATURE])
         ELSE None

\* mutant of _update_unique_id: the Celsius rule does not look for the suffix
UpdateUniqueIdNoSuffixTest(entry) ==
    IF entry.unit_of_measurement = CELSIUS
    THEN Some([new_unique_id |-> entry.unique_id \o UNDERSCORE \o TEMPERATURE])
    ELSE IF /\ entry.domain = BINARY_SENSOR_DOMAIN
            /\ ~Contains(entry.unique_id, UNDERSCORE)
         THEN Some([new_unique_id |-> entry.unique_id \o UNDERSCORE \o ALARM])
         ELSE None

\* A RegistryEntry is [config_entry_id, domain, unit_of_measurement, unique_id].
\* The callback returns None or Some of the dict {"new_unique_id": ...}.
_update_unique_id(entry) ==
    IF /\ entry.unit_of_measurement = CELSIUS
       /\ ~Contains(entry.unique_id, UNDERSCORE \o TEMPERATURE)
    THEN Some([new_unique_id |-> entry.unique_id \o UNDERSCORE \o TEMPERATURE])
    ELSE IF /\ entry.domain = BINARY_SENSOR_DOMAIN
            /\ ~Contains(entry.unique_id, UNDERSCORE)
         THEN Some([new_unique_id |-> entry.unique_id \o UNDERSCORE \o ALARM])
         ELSE None

\* The host refuses a new unique ID that another entry of the same domain holds
\* (the platform is the same for every entry of this integration).
UniqueIdTaken(reg, i, new_unique_id) ==
    \E j \in 1..Len(reg) :
        /\ j # i
        /\ reg[j].domain = reg[i].domain
        /\ reg[j].unique_id = new_unique_id

\* async_migrate_entries(hass, entry_id, _update_unique_id) from entry i on:
\* the registry it leaves, and whether the update of some entry raised.
RECURSIVE MigrateFrom(_, _, _)
MigrateFrom(reg, i, entry_id) ==
    IF i > Len(reg)
    THEN [registry |-> reg, raised |-> FALSE]
    ELSE IF reg[i].config_entry_id # entry_id
         THEN MigrateFrom(reg, i + 1, entry_id)
         ELSE LET updates == _update_unique_id(reg[i])
              IN  IF updates = None
                  THEN MigrateFrom(reg, i + 1, entry_id)
                  ELSE IF UniqueIdTaken(reg, i, updates.val.new_unique_id)
                       THEN [registry |-> reg, raised |-> TRUE]
                       ELSE MigrateFrom(
                                [reg EXCEPT ![i].unique_id = updates.val.new_unique_id],
                                i + 1, entry_id)

async_migrate_entries(reg, entry_id) == MigrateFrom(reg, 1, entry_id)

(* The device registry and the housekeeping of async_setup_entry.          *)

\* A polled device is [ain, unit_id]: unit_id is fritz_device.device_and_unit_id[1].
\* Poll data is [devices, templates]: the devices (one per AIN) and the template AINs.
DeviceKeys(data) == {d.ain : d \in data.devices}

\* A DeviceEntry is [identifiers, connections]; device.id is the entry itself.
\* dr.async_get_device(identifiers={(DOMAIN, ain)}): the entries holding the identifier
\* (the registry keeps at most one).
async_get_device(dr, ain) == {device \in dr : <<FRITZ_DOMAIN, ain>> \in device.identifiers}

\* devices_to_remove: the registry entries of the polled sub-device units
devices_to_remove(dr, data) ==
    UNION {async_get_device(dr, d.ain) : d \in {x \in data.devices : Truthy(x.unit_id)}}

\* found_issues: the removed devices some automation or script refers to
found_issues(to_remove, referenced) == to_remove \cap referenced

\* dr.async_get_or_create(identifiers={(DOMAIN, ain)}, connections={("ain", ain)}):
\* the entry found by identifier, else by connection, gets both merged in; with no
\* entry found one is created.
async_get_or_create(dr, ain) ==
    LET ids      == {<<FRITZ_DOMAIN, ain>>}
        conns    == {<<CONF_AIN, ain>>}
        by_ident == {device \in dr : device.identifiers \cap ids # {}}
        by_conn  == {device \in dr : device.connections \cap conns # {}}
        found    == IF by_ident # {} THEN by_ident ELSE by_conn
    IN  IF found = {}
        THEN dr \cup {[identifiers |-> ids, connections |-> conns]}
        ELSE LET old == CHOOSE device \in found : TRUE
             IN  (dr \ {old}) \cup
                     {[identifiers |-> old.identifiers \cup ids,
                       connections |-> old.connections \cup conns]}

\* the main devices of the poll data, for which an entry is pre-created
main_devices(data) == {d \in data.devices : d.unit_id = None}

RECURSIVE PreCreate(_, _)
PreCreate(dr, devices) ==
    IF devices = {}
    THEN dr
    ELSE LET d == CHOOSE x \in devices : TRUE
         IN  PreCreate(async_get_or_create(dr, d.ain), devices \ {d})

(* FritzBoxEntity.__init__: the unique ID of an entity.                     *)

\* entity_description is None or Some([key |-> k])
FritzBoxEntity(ain, entity_description) ==
    [ain |-> ain,
     entity_description |-> entity_description,
     unique_id |-> IF entity_description # None
                   THEN ain \o UNDERSCORE \o entity_description.val.key
                   ELSE ain]


(* async_setup_entry                                                        *)

\* the states in which the host sets an entry up (first setup, retry, reload)
SetupAllowed == {"not_loaded", "setup_retry", "setup_error"}

\* mutants of LoginSignal: every login failure reported as one signal
LoginSignalAlwaysAuthFailed(login) == "ConfigEntryAuthFailed"

LoginSignalAlwaysNotReady(login) == "ConfigEntryNotReady"

\* what fritz.login raising `login` is translated to
LoginSignal(login) ==
    IF login = "RequestConnectionError"
    THEN "ConfigEntryNotReady"
    ELSE "ConfigEntryAuthFailed"

\* the state in which the host leaves an entry whose setup raised `signal`
StateAfterRaise(signal) ==
    IF signal = "ConfigEntryNotReady" THEN "setup_retry" ELSE "setup_error"

\* hass.data[DOMAIN][entry_id] = {CONF_CONNECTIONS: fritz}, fritz logged in
EntryData == Some([connections |-> [logged_in |-> TRUE], coordinator |-> None])

\* ... [CONF_COORDINATOR] = coordinator, holding the data of its first refresh
WithCoordinator(entry_data, data) ==
    Some([entry_data.val EXCEPT !.coordinator = Some([data |-> data])])

\* One call of async_setup_entry(hass, entry) for entry e. Its inputs are what the
\* calls it makes outside this module do:
\*   login         "ok" or the exception fritz.login raises
\*   has_templates "true", "false" or "error" (fritz.has_templates raises)
\*   refresh       None (the first refresh fails) or Some(poll data)
\*   referenced    the device ids automations and scripts refer to
\*   forward       "ok" or "error" (async_forward_entry_setups raises)
async_setup_entry(e, login, has_templates, refresh, referenced, forward) ==
    /\ entry_state[e] \in SetupAllowed
    /\ UNCHANGED entities
    /\ LET Returned(step, outcome) ==
               [op |-> "async_setup_entry", entry |-> e, login |-> login,
                failed_step |-> step, outcome |-> outcome]
           Raise(step, signal) ==
               /\ result' = Returned(step, signal)
               /\ entry_state' = [entry_state EXCEPT ![e] = StateAfterRaise(signal)]
       IN  IF login # "ok"
           THEN /\ Raise("login", LoginSignal(login))
                /\ UNCHANGED <<hass_data, stop_listener, device_registry,
                               entity_registry, issues>>
           ELSE IF has_templates = "error"
           THEN /\ Raise("has_templates", "Exception")
                /\ hass_data' = [hass_data EXCEPT ![e] = EntryData]
                /\ UNCHANGED <<stop_listener, device_registry, entity_registry, issues>>
           ELSE IF refresh = None
           THEN /\ Raise("first_refresh", "ConfigEntryNotReady")
                /\ hass_data' = [hass_data EXCEPT ![e] = EntryData]
                /\ UNCHANGED <<stop_listener, device_registry, entity_registry, issues>>
           ELSE LET data     == refresh.val
                    migrated == async_migrate_entries(entity_registry, e)
                    removed  == devices_to_remove(device_registry, data)
                IN  /\ hass_data' = [hass_data EXCEPT ![e] = WithCoordinator(EntryData, data)]
                    /\ entity_registry' = migrated.registry
                    /\ IF migrated.raised
                       THEN /\ Raise("migration", "Exception")
                            /\ UNCHANGED <<stop_listener, device_registry, issues>>
                       ELSE /\ issues' = issues \cup found_issues(removed, referenced)
                            /\ device_registry' =
                                   PreCreate(device_registry \ removed, main_devices(data))
                            /\ IF forward = "error"
                               THEN /\ Raise("forward", "Exception")
                                    /\ UNCHANGED stop_listener
                               ELSE /\ stop_listener' = [stop_listener EXCEPT ![e] = TRUE]
                                    /\ entry_state' = [entry_state EXCEPT ![e] = "loaded"]
                                    /\ result' = Returned("none", "True")

(* async_unload_entry                                                       *)

\* fritz.logout() on the stored handle
LoggedOut(entry_data) ==
    Some([entry_data.val EXCEPT !.connections = [logged_in |-> FALSE]])

\* mutant of DataAfterUnload: the data is removed whatever the platforms report
DataAfterUnloadAlwaysPop(data, e, unload_ok) == [data EXCEPT ![e] = None]

\* hass.data[DOMAIN] after the unload of entry e, the platforms reporting unload_ok
DataAfterUnload(data, e, unload_ok) ==
    [data EXCEPT ![e] = IF unload_ok THEN None ELSE LoggedOut(data[e])]

\* One call of async_unload_entry(hass, entry) for a loaded entry e; unload_ok is
\* what async_unload_platforms reports. The host drops the entry's on-unload
\* callbacks (the stop listener) after a successful unload.
async_unload_entry(e, unload_ok) ==
    /\ entry_state[e] = "loaded"
    /\ hass_data' = DataAfterUnload(hass_data, e, unload_ok)
    /\ entry_state' = [entry_state EXCEPT
                          ![e] = IF unload_ok THEN "not_loaded" ELSE "failed_unload"]
    /\ stop_listener' = [stop_listener EXCEPT ![e] = IF unload_ok THEN FALSE ELSE @]
    /\ result' = [op |-> "async_unload_entry", entry |-> e, unload_ok |-> unload_ok,
                  outcome |-> IF unload_ok THEN "True" ELSE "False"]
    /\ UNCHANGED <<device_registry, entity_registry, issues, entities>>

(* async_remove_config_entry_device                                         *)

\* mutant of async_remove_config_entry_device: the templates are not looked at
RemoveIgnoringTemplates(device, data) ==
    ~ \E identifier \in device.identifiers :
          /\ identifier[1] = FRITZ_DOMAIN
          /\ identifier[2] \in DeviceKeys(data)

\* mutant of async_remove_config_entry_device: the identifier's domain is not looked at
RemoveIgnoringDomain(device, data) ==
    ~ \E identifier \in device.identifiers :
          \/ identifier[2] \in DeviceKeys(data)
          \/ identifier[2] \in data.templates

\* the return value for `device`, given the coordinator's current data
async_remove_config_entry_device(device, data) ==
    ~ \E identifier \in device.identifiers :
          /\ identifier[1] = FRITZ_DOMAIN
          /\ \/ identifier[2] \in DeviceKeys(data)
             \/ identifier[2] \in data.templates

\* The host asks to remove the registered `device` from entry e: with no coordinator
\* stored for e the lookup raises KeyError; when the integration allows the removal
\* the host deletes the device entry.
RemoveDevice(e, device) ==
    /\ device \in device_registry
    /\ LET Returned(outcome) ==
               [op |-> "async_remove_config_entry_device", entry |-> e,
                device |-> device, outcome |-> outcome]
       IN  IF hass_data[e] = None \/ hass_data[e].val.coordinator = None
           THEN /\ result' = Returned("KeyError")
                /\ UNCHANGED device_registry
           ELSE LET allowed == async_remove_config_entry_device(
                                   device, hass_data[e].val.coordinator.val.data)
                IN  /\ result' = Returned(IF allowed THEN "True" ELSE "False")
                    /\ device_registry' =
                           IF allowed THEN device_registry \ {device} ELSE device_registry
    /\ UNCHANGED <<entry_state, hass_data, stop_listener, entity_registry, issues,
                   entities>>

(* The coordinator's periodic poll                                          *)

\* A successful refresh of the coordinator of the loaded entry e replaces its data.
Poll(e, data) ==
    /\ entry_state[e] = "loaded"
    /\ hass_data[e] # None
    /\ hass_data[e].val.coordinator # None
    /\ hass_data' = [hass_data EXCEPT ![e] = WithCoordinator(hass_data[e], data)]
    /\ result' = [op |-> "poll", entry |-> e]
    /\ UNCHANGED <<entry_state, stop_listener, device_registry, entity_registry,
                   issues, entities>>

(* A platform constructs an entity                                          *)

Construct(ain, entity_description) ==
    /\ entities' = entities \cup {FritzBoxEntity(ain, entity_description)}
    /\ result' = [op |-> "FritzBoxEntity"]
    /\ UNCHANGED <<entry_state, hass_data, stop_listener, device_registry,
                   entity_registry, issues>>


(* Inputs                                                                   *)

Entries == {"e1", "e2"}

\* the devices a hub reports: a main device, a unit of a device, and a device whose
\* unit ID is the empty string
MainDevice == [ain |-> "a", unit_id |-> None]

UnitDevice == [ain |-> "b", unit_id |-> Some("1")]

EmptyUnitDevice == [ain |-> "c", unit_id |-> Some("")]

Devices == {MainDevice, UnitDevice, EmptyUnitDevice}

Templates == {"t"}

PollData == {[devices |-> d, templates |-> t] : d \in SUBSET Devices, t \in SUBSET Templates}

EmptyData == [devices |-> {}, templates |-> {}]

\* device entries as earlier versions of the integration registered them, one per AIN
RegisteredDevice(ain) == [identifiers |-> {<<FRITZ_DOMAIN, ain>>}, connections |-> {}]

\* a device of another integration whose identifier value equals a polled AIN
ForeignDevice == [identifiers |-> {<<"other", "a">>}, connections |-> {}]

\* a device without identifiers
BareDevice == [identifiers |-> {}, connections |-> {<<"mac", "x">>}]

DeviceCandidates ==
    {RegisteredDevice(ain) : ain \in {"a", "b", "c", "t"}} \cup {ForeignDevice, BareDevice}

LoginOutcomes == {"ok", "RequestConnectionError", "LoginError"}

TemplateOutcomes == {"true", "false", "error"}

ForwardOutcomes == {"ok", "error"}

RegistryEntryOf(e, domain, unit, unique_id) ==
    [config_entry_id |-> e, domain |-> domain, unit_of_measurement |-> unit,
     unique_id |-> unique_id, original_unique_id |-> unique_id]

\* two entries of e1 whose migration collides: the first is renamed to the unique ID
\* the second holds
CollidingRegistry ==
    <<RegistryEntryOf("e1", "sensor", CELSIUS, <<"a">>),
      RegistryEntryOf("e1", "sensor", CELSIUS, <<"a">> \o UNDERSCORE \o TEMPERATURE)>>

(* The lifecycle of two config entries                                      *)

InitCommon ==
    /\ entry_state = [e \in Entries |-> "not_loaded"]
    /\ hass_data = [e \in Entries |-> None]
    /\ stop_listener = [e \in Entries |-> FALSE]
    /\ issues = {}
    /\ entities = {}
    /\ result = [op |-> "none"]

Init ==
    /\ InitCommon
    /\ entity_registry \in {<< >>, CollidingRegistry}
    /\ device_registry = {RegisteredDevice("b")}

LifecycleData == {EmptyData, [devices |-> {MainDevice, UnitDevice}, templates |-> {"t"}]}

Setup ==
    \E e \in Entries, login \in LoginOutcomes, has_templates \in TemplateOutcomes,
       refresh \in {None} \cup {Some(d) : d \in LifecycleData},
       referenced \in {{}, DeviceCandidates}, forward \in ForwardOutcomes :
        async_setup_entry(e, login, has_templates, refresh, referenced, forward)

Unload == \E e \in Entries, unload_ok \in BOOLEAN : async_unload_entry(e, unload_ok)

Remove == \E e \in Entries, device \in device_registry : RemoveDevice(e, device)

Refresh == \E e \in Entries, data \in LifecycleData : Poll(e, data)

Next == Setup \/ Unload \/ Remove \/ Refresh

Spec == Init /\ [][Next]_vars


(* One config entry over a device registry of any earlier content           *)

InitDevices ==
    /\ InitCommon
    /\ entity_registry = << >>
    /\ device_registry \in SUBSET DeviceCandidates

SetupDevices ==
    \E login \in LoginOutcomes, has_templates \in TemplateOutcomes,
       refresh \in {None} \cup {Some(d) : d \in PollData},
       referenced \in {{}, DeviceCandidates}, forward \in ForwardOutcomes :
        async_setup_entry("e1", login, has_templates, refresh, referenced, forward)

UnloadDevices == \E unload_ok \in BOOLEAN : async_unload_entry("e1", unload_ok)

RemoveDevices == \E device \in device_registry : RemoveDevice("e1", device)

RefreshDevices == \E data \in PollData : Poll("e1", data)

NextDevices == SetupDevices \/ UnloadDevices \/ RemoveDevices \/ RefreshDevices

SpecDevices == InitDevices /\ [][NextDevices]_vars

\* The coordinator of a loaded entry polls periodically: a refresh that is possible
\* is eventually made. Nothing schedules a removal request.
FairSpecDevices == SpecDevices /\ WF_vars(RefreshDevices)

(* The migration over entity registries of any earlier content             *)

MaxLen == 2

Alphabet == {"a", "_"}

\* the non-empty strings of at most n characters
Strings(n) == UNION {[1..k -> Alphabet] : k \in 1..n}

\* unique IDs of either schema: bare, or with a suffix already
UniqueIds ==
    Strings(MaxLen)
        \cup {s \o UNDERSCORE \o TEMPERATURE : s \in Strings(MaxLen)}
        \cup {s \o UNDERSCORE \o ALARM : s \in Strings(MaxLen)}

RegistryEntries(entry_ids) ==
    {RegistryEntryOf(e, domain, unit, unique_id) :
        e \in entry_ids, domain \in {"sensor", BINARY_SENSOR_DOMAIN},
        unit \in {CELSIUS, "%"}, unique_id \in UniqueIds}

\* registries of one entry of e1, or of one followed by an entry of either config
\* entry; the host keeps the unique IDs of a domain distinct
EntityRegistries ==
    {<<x>> : x \in RegistryEntries({"e1"})}
        \cup {r \in {<<x, y>> : x \in RegistryEntries({"e1"}),
                                y \in RegistryEntries(Entries)} :
                  r[1].domain # r[2].domain \/ r[1].unique_id # r[2].unique_id}

InitMigrate ==
    /\ InitCommon
    /\ entity_registry \in EntityRegistries
    /\ device_registry = {}

SetupMigrate ==
    \E forward \in ForwardOutcomes :
        async_setup_entry("e1", "ok", "false", Some(EmptyData), {}, forward)

UnloadMigrate == async_unload_entry("e1", TRUE)

NextMigrate == SetupMigrate \/ UnloadMigrate

SpecMigrate == InitMigrate /\ [][NextMigrate]_vars

(* The unique IDs of two entities                                           *)

EntityDescriptions == {None} \cup {Some([key |-> k]) : k \in Strings(MaxLen)}

InitEntities ==
    /\ InitCommon
    /\ entity_registry = << >>
    /\ device_registry = {}

ConstructEntity ==
    \E ain \in Strings(MaxLen), entity_description \in EntityDescriptions :
        /\ Cardinality(entities) <= 1
        /\ Construct(ain, entity_description)

SpecEntities == InitEntities /\ [][ConstructEntity]_vars


(* Properties                                                               *)

\* the call recorded in `result` is a setup of entry e whose login ended as `login`
SetupWithLogin(r, e, login) ==
    /\ r.op = "async_setup_entry"
    /\ r.entry = e
    /\ r.login = login

\* C1: when fritz.login raises a connection error, async_setup_entry raises
\* ConfigEntryNotReady at the login step and no later step runs: hass.data, the stop
\* listeners, both registries and the issues are as they were before the call.
C1_ConnectionErrorNotReady ==
    [][\A e \in Entries :
          SetupWithLogin(result', e, "RequestConnectionError")
              => /\ result'.outcome = "ConfigEntryNotReady"
                 /\ result'.failed_step = "login"
                 /\ UNCHANGED <<hass_data, stop_listener, device_registry,
                                entity_registry, issues>>]_vars

\* a setup of e2 failed with a connection error while e1 stays loaded with its data
C1_Witness ==
    /\ SetupWithLogin(result, "e2", "RequestConnectionError")
    /\ result.outcome = "ConfigEntryNotReady"
    /\ entry_state["e2"] = "setup_retry"
    /\ hass_data["e2"] = None
    /\ hass_data["e1"] # None

\* C2: when fritz.login raises a login error, async_setup_entry raises
\* ConfigEntryAuthFailed (never ConfigEntryNotReady) at the login step and no later
\* step runs: hass.data and the registries are as they were before the call.
C2_LoginErrorAuthFailed ==
    [][\A e \in Entries :
          SetupWithLogin(result', e, "LoginError")
              => /\ result'.outcome = "ConfigEntryAuthFailed"
                 /\ result'.outcome # "ConfigEntryNotReady"
                 /\ result'.failed_step = "login"
                 /\ UNCHANGED <<hass_data, stop_listener, device_registry,
                                entity_registry, issues>>]_vars

\* a setup of e1 failed with a login error, the registry still holding the entry
\* that a migration would have renamed
C2_Witness ==
    /\ SetupWithLogin(result, "e1", "LoginError")
    /\ result.outcome = "ConfigEntryAuthFailed"
    /\ entry_state["e1"] = "setup_error"
    /\ hass_data["e1"] = None
    /\ entity_registry = CollidingRegistry

\* C6, as claimed: hass.data[DOMAIN] holds a handle under an entry ID only if the
\* setup of that entry completed successfully and the entry has not since been
\* unloaded successfully; after a setup that failed at any step no handle remains.
C6_HandleOnlyWhileSetUp ==
    \A e \in Entries :
        hass_data[e] # None => entry_state[e] \in {"loaded", "failed_unload"}

\* the unload call recorded in `result` was for entry e
UnloadOf(r, e) == r.op = "async_unload_entry" /\ r.entry = e

\* C8: async_unload_entry logs the client out and removes the data of the entry from
\* hass.data[DOMAIN] if and only if the platforms report a successful unload; it
\* returns that report. After a failed unload the handle is still stored, logged
\* out; the data of every other entry is unchanged in both cases.
C8_UnloadPopsIffOk ==
    [][\A e \in Entries :
          UnloadOf(result', e)
              => /\ result'.outcome = (IF result'.unload_ok THEN "True" ELSE "False")
                 /\ (hass_data'[e] = None) <=> result'.unload_ok
                 /\ ~result'.unload_ok
                        => /\ hass_data'[e].val.connections.logged_in = FALSE
                           /\ hass_data'[e].val.coordinator = hass_data[e].val.coordinator
                 /\ \A other \in Entries \ {e} : hass_data'[other] = hass_data[other]]_vars

\* the unload of e1 failed: its handle is stored and logged out, and the handle of
\* the loaded e2 is still logged in
C8_Witness ==
    /\ UnloadOf(result, "e1")
    /\ result.outcome = "False"
    /\ hass_data["e1"] # None
    /\ hass_data["e1"].val.connections.logged_in = FALSE
    /\ entry_state["e2"] = "loaded"
    /\ hass_data["e2"].val.connections.logged_in = TRUE


\* the poll data the coordinator stored for entry e holds
CoordinatorData(e) == hass_data[e].val.coordinator.val.data

\* the removal request recorded in `result` was answered by the integration
RemovalAnswered(r) ==
    /\ r.op = "async_remove_config_entry_device"
    /\ r.outcome \in {"True", "False"}

\* some identifier of `device` is of this integration and a key of the polled
\* devices or templates
HoldsPolledIdentifier(device, data) ==
    \E ain \in DeviceKeys(data) \cup data.templates :
        <<FRITZ_DOMAIN, ain>> \in device.identifiers

\* C4: async_remove_config_entry_device returns False whenever an identifier of the
\* device is of this integration's domain and a key of the coordinator's current
\* devices or templates, and True exactly when there is no such identifier.
C4_RemovalRefusedWhilePolled ==
    RemovalAnswered(result)
        => (result.outcome = "False"
                <=> HoldsPolledIdentifier(result.device, CoordinatorData(result.entry)))

\* the removal of another integration's device was allowed although its identifier
\* value is the AIN of a polled device, and the removal of the template's device was
\* refused at some point before (it is still registered, the template still polled)
C4_Witness ==
    /\ RemovalAnswered(result)
    /\ result.outcome = "True"
    /\ result.device = ForeignDevice
    /\ "a" \in DeviceKeys(CoordinatorData("e1"))
    /\ "t" \in CoordinatorData("e1").templates
    /\ RegisteredDevice("t") \in device_registry

\* a device entry with the identifier (DOMAIN, ain) is registered
Registered(ain) == async_get_device(device_registry, ain) # {}

\* entry e1 is loaded and its current poll data reports ain
Reported(ain) ==
    /\ entry_state["e1"] = "loaded"
    /\ ain \in DeviceKeys(CoordinatorData("e1")) \cup CoordinatorData("e1").templates

C9_EveryDeviceUnitOrMain ==
    (SetupWithLogin(result, "e1", "ok") /\ result.outcome = "True")
        => \A d \in CoordinatorData("e1").devices :
               \/ d.unit_id # None /\ ~Registered(d.ain)
               \/ /\ d.unit_id = None
                  /\ \E device \in device_registry :
                         /\ <<FRITZ_DOMAIN, d.ain>> \in device.identifiers
                         /\ <<CONF_AIN, d.ain>> \in device.connections


\* the rename the claim states for an entry of the given domain, unit and unique ID:
\* None, or Some of the new unique ID
ClaimedRename(domain, unit, unique_id) ==
    LET celsius_rule == /\ unit = CELSIUS
                        /\ ~Contains(unique_id, UNDERSCORE \o TEMPERATURE)
        alarm_rule   == /\ domain = BINARY_SENSOR_DOMAIN
                        /\ ~Contains(unique_id, UNDERSCORE)
    IN  CASE celsius_rule -> Some(unique_id \o UNDERSCORE \o TEMPERATURE)
          [] ~celsius_rule /\ alarm_rule -> Some(unique_id \o UNDERSCORE \o ALARM)
          [] OTHER -> None

\* the last call was a setup of e1 whose migration ran over the whole registry
MigrationCompleted ==
    /\ SetupWithLogin(result, "e1", "ok")
    /\ result.failed_step \in {"forward", "none"}

\* C3: the migration callback renames an entry exactly as claimed: Celsius without
\* "_temperature" gets "_temperature" appended; otherwise a binary_sensor without "_"
\* gets "_alarm" appended; every other entry is left alone. The registry after a
\* completed migration holds, for every entry of the config entry, the unique ID so
\* derived from the one it had, and the entries of other config entries unchanged.
C3_RenameExactlyAsStated ==
    \A i \in 1..Len(entity_registry) :
        LET entry   == entity_registry[i]
            claimed == ClaimedRename(entry.domain, entry.unit_of_measurement,
                                     entry.unique_id)
            first   == ClaimedRename(entry.domain, entry.unit_of_measurement,
                                     entry.original_unique_id)
        IN  /\ _update_unique_id(entry) =
                   (IF claimed = None THEN None
                    ELSE Some([new_unique_id |-> claimed.val]))
            /\ (MigrationCompleted /\ entry.config_entry_id = "e1")
                   => entry.unique_id =
                          (IF first = None THEN entry.original_unique_id ELSE first.val)
            /\ entry.config_entry_id # "e1"
                   => entry.unique_id = entry.original_unique_id

\* a completed migration in which both rules applied to the first entry (a Celsius
\* binary_sensor without "_") and it got "_temperature", while the second entry, a
\* binary_sensor without unit, got "_alarm"
C3_Witness ==
    /\ MigrationCompleted
    /\ Len(entity_registry) = 2
    /\ entity_registry[1].domain = BINARY_SENSOR_DOMAIN
    /\ entity_registry[1].unit_of_measurement = CELSIUS
    /\ entity_registry[1].original_unique_id = <<"a">>
    /\ entity_registry[1].unique_id = <<"a">> \o UNDERSCORE \o TEMPERATURE
    /\ entity_registry[2].original_unique_id = <<"a", "a">>
    /\ entity_registry[2].unique_id = <<"a", "a">> \o UNDERSCORE \o ALARM

\* C10: the migration is idempotent: the callback returns no rename for an entry it
\* has renamed, so whatever the number of setups the unique ID of an entry is the one
\* it had, with at most one suffix appended.
C10_MigrationIdempotent ==
    \A i \in 1..Len(entity_registry) :
        LET entry   == entity_registry[i]
            updates == _update_unique_id(entry)
        IN  /\ updates # None
                   => _update_unique_id(
                          [entry EXCEPT !.unique_id = updates.val.new_unique_id]) = None
            /\ entry.unique_id \in
                   {entry.original_unique_id,
                    entry.original_unique_id \o UNDERSCORE \o TEMPERATURE,
                    entry.original_unique_id \o UNDERSCORE \o ALARM}

\* an entry was renamed by the migration of a setup (while another entry of the same
\* config entry was left alone), and the callback has no further rename for it
C10_Witness ==
    /\ MigrationCompleted
    /\ Len(entity_registry) = 2
    /\ entity_registry[1].unique_id =
           entity_registry[1].original_unique_id \o UNDERSCORE \o ALARM
    /\ _update_unique_id(entity_registry[1]) = None
    /\ entity_registry[2].config_entry_id = "e1"
    /\ entity_registry[2].unique_id = entity_registry[2].original_unique_id

\* C5, as claimed: two entities whose (AIN, description key) pairs differ have
\* different unique IDs.
C5_UniqueIdsDiffer ==
    \A x \in entities, y \in entities :
        (x.ain # y.ain \/ x.entity_description # y.entity_description)
            => x.unique_id # y.unique_id

=============================================================================
